---- MODULE Spec2Model ----
(***************************************************************************)
(* Inventory simulator under an (s, Q) reorder policy (src/app.py).        *)
(*                                                                         *)
(* The state is that of one press of the "Ejecutar simulacion" button:     *)
(* the sidebar parameters, the locals of simular_inventario while a call   *)
(* is running (one step per iteration of its day loop), the analysis       *)
(* scalars, the scenario list and the conclusion text.                     *)
(*                                                                         *)
(* Scaling: the sidebar ranges (dias 15..120, I0 0..2000, s 1..500,        *)
(* Q 1..1000, L 1..15, demanda_media 1..50) keep their lower ends except   *)
(* dias, which starts at 1, and get small upper ends; a Poisson draw is    *)
(* any integer 0..MaxDemanda.                                              *)
(***************************************************************************)
EXTENDS Integers, Sequences, FiniteSets, TLC

\* ---------------------------------------------------------------- bounds
MaxDias == 3
MaxI0 == 2
MaxS == 1
MaxQ == 2
MaxL == 2
MaxMedia == 3
MaxDemanda == 1

\* ------------------------------------------------------------- variables
VARIABLES
    dias, I0, s, Q, L, demanda_media, escenarios,   \* sidebar widgets
    pc,               \* position of the script
    corrida,          \* 0: the main call (line 73); 1..3: the scenario calls (line 120)
    param,            \* the demanda_media argument of the current call
    t, inventario, llegada_pedido, registros,       \* locals of simular_inventario
    traza,            \* history of the current call, per day: stock before sales, whether an
                      \* order arrived, whether one was placed, llegada_pedido at the end
    retorno,          \* the frame returned by the call that has just returned
    falt_total, falt_dias, pedidos,                 \* analysis scalars
    escenarios_data,  \* labels and row counts of the labelled scenario frames
    concl             \* conclusion lines

vars == <<dias, I0, s, Q, L, demanda_media, escenarios, pc, corrida, param, t,
          inventario, llegada_pedido, registros, traza, retorno, falt_total,
          falt_dias, pedidos, escenarios_data, concl>>

widgets == <<dias, I0, s, Q, L, demanda_media, escenarios>>
analisis == <<falt_total, falt_dias, pedidos>>

\* --------------------------------------------------------------- helpers
min(a, b) == IF a <= b THEN a ELSE b

max(a, b) == IF a >= b THEN a ELSE b

RECURSIVE Suma(_)
Suma(q) == IF q = <<>> THEN 0 ELSE Head(q) + Suma(Tail(q))

Cuenta(q) == Cardinality({i \in 1..Len(q) : q[i]})

\* np.random.poisson(lam): lam < 0 raises ValueError, lam = 0 always gives 0,
\* otherwise any count (here up to MaxDemanda).
PoissonFalla(lam) == lam < 0

Poisson(lam) == IF lam = 0 THEN {0} ELSE 0..MaxDemanda

\* ------------------------------------------------- simular_inventario
DiaInicial == 0

SinPedidoMut == DiaInicial

SinPedido == -1

EnRangoMut(dia, n) == dia <= n

EnRango(dia, n) == dia < n

Llega(dia, llegada) == dia = llegada

RecibeMut(inv, cantidad) == inv + cantidad + cantidad

Recibe(inv, cantidad) == inv + cantidad

VentasMut(inv, demanda) == demanda

Ventas(inv, demanda) == min(inv, demanda)

FaltantesMut(inv, demanda) == demanda - inv

Faltantes(inv, demanda) == max(0, demanda - inv)

DisparaMutHoy(inv, punto, llegada, dia) == inv <= punto /\ llegada <= dia

DisparaMutSinGuarda(inv, punto, llegada, dia) == inv <= punto

DisparaMutEstricto(inv, punto, llegada, dia) == inv < punto /\ llegada < dia

DisparaMutSinUmbral(inv, punto, llegada, dia) == llegada < dia

DisparaMutAlReves(inv, punto, llegada, dia) == inv >= punto /\ llegada < dia

Dispara(inv, punto, llegada, dia) == inv <= punto /\ llegada < dia

FechaLlegadaMut(dia, entrega) == dia + entrega + 1

FechaLlegada(dia, entrega) == dia + entrega

\* pd.DataFrame(registros, columns=[...]): each row list becomes a row with named columns.
DataFrame(filas) ==
    [i \in 1..Len(filas) |->
        [Dia |-> filas[i][1], Inventario |-> filas[i][2], Demanda |-> filas[i][3],
         Ventas |-> filas[i][4], Faltantes |-> filas[i][5]]]

\* The rows simular_inventario builds from the draws ds, as a function of its
\* arguments and the draws alone: the loop body applied from day dia on.
RECURSIVE SimularDesde(_, _, _, _)
SimularDesde(dia, inv, llegada, ds) ==
    IF ds = <<>>
    THEN <<>>
    ELSE LET demanda == Head(ds)
             antes == IF Llega(dia, llegada) THEN Recibe(inv, Q) ELSE inv
             ventas == Ventas(antes, demanda)
             faltantes == Faltantes(antes, demanda)
             despues == antes - ventas
             nueva == IF Dispara(despues, s, llegada, dia)
                      THEN FechaLlegada(dia, L)
                      ELSE llegada
         IN  <<(<<dia, despues, demanda, ventas, faltantes>>)>>
                 \o SimularDesde(dia + 1, despues, nueva, Tail(ds))

Simular(ds) == SimularDesde(DiaInicial, I0, SinPedido, ds)

\* A call that keeps the previous call's stock and pending arrival.
LlamarMut(n, media) ==
    /\ corrida' = n
    /\ param' = media
    /\ t' = DiaInicial
    /\ inventario' = inventario
    /\ llegada_pedido' = llegada_pedido
    /\ registros' = <<>>
    /\ traza' = <<>>
    /\ retorno' = <<>>
    /\ pc' = "simulando"

\* Entry of simular_inventario(dias, I0, s, Q, L, media).
Llamar(n, media) ==
    /\ corrida' = n
    /\ param' = media
    /\ t' = DiaInicial
    /\ inventario' = I0
    /\ llegada_pedido' = SinPedido
    /\ registros' = <<>>
    /\ traza' = <<>>
    /\ retorno' = <<>>
    /\ pc' = "simulando"

\* ------------------------------------------------- analysis
PedidosMut(df, punto) == Cuenta([i \in 1..Len(df) |-> df[i].Inventario < punto])

Pedidos(df, punto) == Cuenta([i \in 1..Len(df) |-> df[i].Inventario <= punto])

\* ------------------------------------------------------- scenario sweep
Candidatos(media) == <<media - 3, media, media + 3>>

Etiqueta(media) == "Demanda=" \o ToString(media)

\* ------------------------------------------------------------------ Init
Init ==
    /\ dias \in 1..MaxDias
    /\ I0 \in 0..MaxI0
    /\ s \in 1..MaxS
    /\ Q \in 1..MaxQ
    /\ L \in 1..MaxL
    /\ demanda_media \in 1..MaxMedia
    /\ escenarios \in BOOLEAN
    /\ pc = "inicio"
    /\ corrida = 0
    /\ param = demanda_media
    /\ t = DiaInicial
    /\ inventario = I0
    /\ llegada_pedido = SinPedido
    /\ registros = <<>>
    /\ traza = <<>>
    /\ retorno = <<>>
    /\ falt_total = 0
    /\ falt_dias = 0
    /\ pedidos = 0
    /\ escenarios_data = <<>>
    /\ concl = <<>>

\* The sidebar ranges with the horizon one day longer, so that the day L + 1 days
\* after an arrival day (itself day L at the earliest) is simulated.
InitLargo ==
    /\ dias \in 1..(MaxDias + 1)
    /\ I0 \in 0..MaxI0
    /\ s \in 1..MaxS
    /\ Q \in 1..MaxQ
    /\ L \in 1..MaxL
    /\ demanda_media \in 1..MaxMedia
    /\ escenarios \in BOOLEAN
    /\ pc = "inicio"
    /\ corrida = 0
    /\ param = demanda_media
    /\ t = DiaInicial
    /\ inventario = I0
    /\ llegada_pedido = SinPedido
    /\ registros = <<>>
    /\ traza = <<>>
    /\ retorno = <<>>
    /\ falt_total = 0
    /\ falt_dias = 0
    /\ pedidos = 0
    /\ escenarios_data = <<>>
    /\ concl = <<>>

\* simular_inventario called directly: the sidebar ranges, or one argument below its range.
InitAny ==
    /\ dias \in -1..MaxDias
    /\ I0 \in 0..MaxI0
    /\ s \in 1..MaxS
    /\ Q \in -1..MaxQ
    /\ L \in -1..MaxL
    /\ demanda_media \in -1..MaxMedia
    /\ Cardinality({k \in 1..4 : <<dias, Q, L, demanda_media>>[k] < 1}) <= 1
    /\ escenarios \in BOOLEAN
    /\ pc = "inicio"
    /\ corrida = 0
    /\ param = demanda_media
    /\ t = DiaInicial
    /\ inventario = I0
    /\ llegada_pedido = SinPedido
    /\ registros = <<>>
    /\ traza = <<>>
    /\ retorno = <<>>
    /\ falt_total = 0
    /\ falt_dias = 0
    /\ pedidos = 0
    /\ escenarios_data = <<>>
    /\ concl = <<>>

\* --------------------------------------------------------------- actions
\* The button is pressed: df = simular_inventario(dias, I0, s, Q, L, demanda_media).
Ejecutar ==
    /\ pc = "inicio"
    /\ Llamar(0, demanda_media)
    /\ UNCHANGED <<widgets, analisis, escenarios_data, concl>>

\* One iteration of the day loop; the Poisson draw raises on a negative mean and
\* the exception ends the script.
Dia ==
    /\ pc = "simulando"
    /\ EnRango(t, dias)
    /\ IF PoissonFalla(param)
       THEN /\ pc' = "error"
            /\ UNCHANGED <<widgets, corrida, param, t, inventario, llegada_pedido,
                           registros, traza, retorno, analisis, escenarios_data, concl>>
       ELSE \E demanda \in Poisson(param) :
            LET llego == Llega(t, llegada_pedido)
                antes == IF llego THEN Recibe(inventario, Q) ELSE inventario
                ventas == Ventas(antes, demanda)
                faltantes == Faltantes(antes, demanda)
                despues == antes - ventas
                pidio == Dispara(despues, s, llegada_pedido, t)
            IN  /\ inventario' = despues
                /\ llegada_pedido' = IF pidio THEN FechaLlegada(t, L) ELSE llegada_pedido
                /\ registros' = Append(registros, <<t, despues, demanda, ventas, faltantes>>)
                /\ traza' = Append(traza, [antes |-> antes, llego |-> llego, pidio |-> pidio,
                                            llegada |-> llegada_pedido'])
                /\ t' = t + 1
                /\ UNCHANGED <<widgets, pc, corrida, param, retorno, analisis,
                               escenarios_data, concl>>

\* The main call returns its frame; the analysis scalars are computed from it.
RetornarPrincipal ==
    /\ pc = "simulando"
    /\ ~EnRango(t, dias)
    /\ corrida = 0
    /\ LET df == DataFrame(registros)
       IN  /\ retorno' = df
           /\ falt_total' = Suma([i \in 1..Len(df) |-> df[i].Faltantes])
           /\ falt_dias' = Cuenta([i \in 1..Len(df) |-> df[i].Faltantes > 0])
           /\ pedidos' = Pedidos(df, s)
    /\ pc' = IF escenarios THEN "escenarios" ELSE "conclusiones"
    /\ UNCHANGED <<widgets, corrida, param, t, inventario, llegada_pedido, registros,
                   traza, escenarios_data, concl>>

\* for param in [demanda_media-3, demanda_media, demanda_media+3]: the next call.
Escenario ==
    /\ pc = "escenarios"
    /\ Llamar(Len(escenarios_data) + 1, Candidatos(demanda_media)[Len(escenarios_data) + 1])
    /\ UNCHANGED <<widgets, analisis, escenarios_data, concl>>

\* A scenario call returns; its frame is labelled and appended.
RetornarEscenario ==
    /\ pc = "simulando"
    /\ ~EnRango(t, dias)
    /\ corrida >= 1
    /\ LET temp == DataFrame(registros)
       IN  /\ retorno' = temp
           /\ escenarios_data' = Append(escenarios_data,
                                   [Escenario |-> Etiqueta(param), filas |-> Len(temp)])
    /\ pc' = IF corrida = Len(Candidatos(demanda_media)) THEN "conclusiones" ELSE "escenarios"
    /\ UNCHANGED <<widgets, corrida, param, t, inventario, llegada_pedido, registros,
                   traza, analisis, concl>>

\* The conclusion lines; pedidos > dias * 0.4 is compared in tenths.
Conclusiones ==
    /\ pc = "conclusiones"
    /\ LET c1 == IF falt_total = 0
                 THEN <<"No se presentaron faltantes">>
                 ELSE IF falt_total < 10
                      THEN <<"Los faltantes son bajos">>
                      ELSE <<"Existen faltantes significativos">>
           c2 == IF pedidos * 10 > dias * 4
                 THEN <<"Se realizan demasiados pedidos">>
                 ELSE IF pedidos = 0
                      THEN <<"Nunca se dispara pedido">>
                      ELSE <<>>
       IN  concl' = c1 \o c2
    /\ pc' = "fin"
    /\ UNCHANGED <<widgets, corrida, param, t, inventario, llegada_pedido, registros,
                   traza, retorno, analisis, escenarios_data>>

Next ==
    \/ Ejecutar
    \/ Dia
    \/ RetornarPrincipal
    \/ Escenario
    \/ RetornarEscenario
    \/ Conclusiones

Spec == Init /\ [][Next]_vars

SpecAny == InitAny /\ [][Next]_vars

SpecLargo == InitLargo /\ [][Next]_vars

\* ------------------------------------------------------- state functions
\* The rows of the current call so far, and what each day's row and history say.
Filas == 1..Len(registros)

InvFin(i) == registros[i][2]

Dem(i) == registros[i][3]

Ven(i) == registros[i][4]

Fal(i) == registros[i][5]

\* End-of-day stock of the day before row i (the initial stock before day 0).
InvPrevio(i) == IF i = 1 THEN I0 ELSE InvFin(i - 1)

\* Stock after row i's arrival and before its sales, from the rows and the arrivals.
AntesDeVentas(i) == InvPrevio(i) + (IF traza[i].llego THEN Q ELSE 0)

Retornado == pc \in {"escenarios", "conclusiones", "fin"}

\* ---------------------------------------------------------------- claims

\* C1: every record has inventoryEnd >= 0, sales >= 0 and shortfall >= 0; on-hand
\* inventory is never negative after any sequence of days, arrivals and reorders.
C1_NeverNegative ==
    /\ inventario >= 0
    /\ \A i \in Filas : InvFin(i) >= 0 /\ Ven(i) >= 0 /\ Fal(i) >= 0
    /\ \A i \in 1..Len(retorno) :
        retorno[i].Inventario >= 0 /\ retorno[i].Ventas >= 0 /\ retorno[i].Faltantes >= 0

C1_Witness ==
    /\ Retornado
    /\ \E i \in 1..Len(retorno) : retorno[i].Faltantes > 0 /\ retorno[i].Inventario = 0
    /\ \E i \in Filas : traza[i].llego
    /\ \E i \in Filas : traza[i].pidio

\* C2: whenever a new order is placed on day t, every previously placed order has an
\* arrival day strictly below t, so two placements are at least leadTime + 1 days apart
\* and at the end of any day at most one placed order has not yet arrived.
C2_OneOutstanding ==
    /\ \A i \in Filas : traza[i].pidio =>
          \A j \in 1..(i - 1) : traza[j].pidio =>
              /\ traza[j].llegada < i - 1
              /\ i - j >= L + 1
    /\ \A i \in Filas :
          Cardinality({j \in 1..i : traza[j].pidio /\ traza[j].llegada > i - 1}) <= 1

C2_Witness ==
    \E i \in Filas : \E j \in 1..(i - 1) : traza[i].pidio /\ traza[j].pidio

\* C3 as stated: if an order arrives on day t and inventory after that day's arrival
\* and sales is still <= reorderPoint, a new order is scheduled on that same day t
\* with arrival day t + leadTime.
C3_SameDayReorder ==
    \A i \in Filas : (traza[i].llego /\ InvFin(i) <= s) =>
        (traza[i].pidio /\ traza[i].llegada = (i - 1) + L)

\* C3 amended: the guard prevents re-ordering on the day an order arrives: no order is
\* scheduled on the arrival day t even with inventory still <= reorderPoint; the new
\* order is scheduled on day t + 1 with arrival day t + 1 + leadTime.
C3_NextDayReorder ==
    \A i \in Filas : traza[i].llego =>
        /\ ~traza[i].pidio
        /\ traza[i].llegada = i - 1
        /\ (InvFin(i) <= s /\ i + 1 \in Filas) =>
              (traza[i + 1].pidio /\ traza[i + 1].llegada = i + L)

C3_Witness ==
    \E i \in Filas : traza[i].llego /\ InvFin(i) <= s /\ i + 1 \in Filas

\* C4: each day sales = min(inventoryBeforeSales, demand), shortfall =
\* max(0, demand - inventoryBeforeSales), sales + shortfall = demand, inventoryEnd =
\* inventoryBeforeSales - sales, and shortfall > 0 only when inventoryEnd = 0.
C4_SalesShortfall ==
    \A i \in Filas :
        /\ traza[i].antes = AntesDeVentas(i)
        /\ Ven(i) = min(AntesDeVentas(i), Dem(i))
        /\ Fal(i) = max(0, Dem(i) - AntesDeVentas(i))
        /\ Ven(i) + Fal(i) = Dem(i)
        /\ InvFin(i) = AntesDeVentas(i) - Ven(i)
        /\ Fal(i) > 0 => InvFin(i) = 0

C4_Witness ==
    /\ \E i \in Filas : Fal(i) > 0
    /\ \E i \in Filas : traza[i].llego /\ Ven(i) > 0 /\ InvFin(i) > 0

\* C5: with a non-negative mean a call returns exactly dias records, with day fields
\* 0, 1, ..., dias-1 in order, one per loop step, and the script always reaches its end.
C5_HorizonRecords ==
    /\ Len(registros) = t /\ t <= dias
    /\ \A i \in Filas : registros[i][1] = i - 1
    /\ Retornado =>
        /\ t = dias
        /\ Len(retorno) = dias
        /\ \A i \in 1..Len(retorno) : retorno[i].Dia = i - 1
    /\ pc = "error" => param < 0
    /\ pc \in {"fin", "error"} \/ ENABLED Next

C5_Witness ==
    /\ pc = "fin"
    /\ Len(escenarios_data) = 3
    /\ Len(retorno) = dias
    /\ dias > 2

\* C6 as stated: with dias <= 0, Q <= 0, L < 1 or a negative mean the call fails
\* before any day is simulated and never returns records.
C6_InvalidRejected ==
    (pc # "inicio" /\ (dias <= 0 \/ Q <= 0 \/ L < 1 \/ param < 0)) =>
        /\ pc \in {"simulando", "error"}
        /\ registros = <<>>

\* C7 as stated: the sweep runs the engine for base-3, base, base+3 in that order,
\* each mean clamped to a minimum of 0 before it is passed on and used for the label.
C7_SweepClamped ==
    LET clamp(k) == max(0, demanda_media + (k - 2) * 3)
    IN  /\ corrida >= 1 => param = clamp(corrida)
        /\ \A k \in 1..Len(escenarios_data) :
              escenarios_data[k].Escenario = "Demanda=" \o ToString(clamp(k))

\* C8: every order placed on day p is delivered exactly once, on day p + leadTime,
\* raising inventory by exactly orderQuantity before that day's sales; inventory
\* rises on no other day.
C8_DeliveredOnce ==
    \A i \in Filas :
        /\ traza[i].llego <=> (\E j \in 1..(i - 1) : traza[j].pidio /\ (j - 1) + L = i - 1)
        /\ Cardinality({j \in 1..(i - 1) : traza[j].pidio /\ (j - 1) + L = i - 1}) <= 1
        /\ traza[i].llego => traza[i].antes = InvPrevio(i) + Q
        /\ traza[i].llego => Ven(i) = min(InvPrevio(i) + Q, Dem(i))
        /\ ~traza[i].llego => InvFin(i) <= InvPrevio(i)

C8_Witness ==
    \E i \in Filas : traza[i].llego /\ Ven(i) > InvPrevio(i) /\ InvFin(i) = InvPrevio(i) + Q - Ven(i)

\* C9: if reorderPoint >= initialInventory then, whatever the day-0 demand, an order
\* is scheduled on day 0 and arrives on day leadTime.
C9_OrderOnDayZero ==
    s >= I0 =>
        /\ Len(traza) >= 1 => (traza[1].pidio /\ traza[1].llegada = L /\ ~traza[1].llego)
        /\ Len(traza) >= L + 1 => traza[L + 1].llego

C9_Witness ==
    /\ s >= I0
    /\ Len(traza) >= L + 1
    /\ traza[L + 1].llego
    /\ Dem(1) > 0
    /\ L = 1

\* C10: with every draw 0 and I0 <= s < I0 + Q exactly one order is placed, on day 0;
\* inventoryEnd is I0 on days 0..L-1 and I0 + Q from day L on; sales and shortfall are 0.
C10_ZeroDemandOneOrder ==
    ((\A i \in Filas : Dem(i) = 0) /\ I0 <= s /\ s < I0 + Q) =>
        \A i \in Filas :
            /\ traza[i].pidio <=> i = 1
            /\ InvFin(i) = (IF i - 1 < L THEN I0 ELSE I0 + Q)
            /\ Ven(i) = 0
            /\ Fal(i) = 0

C10_Witness ==
    /\ \A i \in Filas : Dem(i) = 0
    /\ I0 <= s /\ s < I0 + Q
    /\ I0 = s
    /\ Len(registros) = dias
    /\ dias > L + 1
    /\ param > 0

\* C11: with every draw 0 and I0 > s no order is ever placed and every record has
\* demand 0, sales 0, shortfall 0 and inventoryEnd = I0 for the whole horizon.
C11_ZeroDemandNoOrder ==
    ((\A i \in Filas : Dem(i) = 0) /\ I0 > s) =>
        /\ llegada_pedido = SinPedido
        /\ inventario = I0
        /\ \A i \in Filas :
            /\ ~traza[i].pidio
            /\ ~traza[i].llego
            /\ InvFin(i) = I0
            /\ Ven(i) = 0
            /\ Fal(i) = 0
        /\ Retornado =>
            \A i \in 1..Len(retorno) :
                /\ retorno[i].Demanda = 0 /\ retorno[i].Ventas = 0
                /\ retorno[i].Faltantes = 0 /\ retorno[i].Inventario = I0

C11_Witness ==
    /\ \A i \in Filas : Dem(i) = 0
    /\ I0 > s
    /\ Retornado
    /\ Len(retorno) = dias
    /\ dias > 2
    /\ param > 0

\* C12: the rows of every call, the main one and each scenario call alike, are the
\* rows the parameters and that call's draws determine from a fresh start (stock I0,
\* no pending order), so two calls with the same draws give identical rows.
C12_RunsIndependent ==
    /\ registros = Simular([i \in Filas |-> Dem(i)])
    /\ (pc = "simulando" /\ t = DiaInicial) =>
          (inventario = I0 /\ llegada_pedido = SinPedido /\ registros = <<>>)
    /\ Retornado => retorno = DataFrame(Simular([i \in 1..Len(retorno) |-> retorno[i].Demanda]))

C12_Witness ==
    /\ corrida = 2
    /\ param = demanda_media
    /\ Retornado
    /\ Len(retorno) = dias
    /\ \E i \in Filas : traza[i].pidio
    /\ \E i \in Filas : traza[i].llego
    /\ \E i \in Filas : Ven(i) > 0

\* Orders placed in the current call.
PedidosHechos == Cardinality({i \in Filas : traza[i].pidio})

\* C13: the count of days with inventoryEnd <= reorderPoint is at least the number of
\* orders placed in the run and is 0 exactly when none was placed, so "Nunca se
\* dispara pedido" is concluded only for runs in which no order was scheduled.
C13_TriggerDaysCoverOrders ==
    /\ (corrida = 0 /\ Retornado) =>
          /\ pedidos >= PedidosHechos
          /\ pedidos = 0 <=> PedidosHechos = 0
    /\ pc = "fin" =>
          ((\E k \in 1..Len(concl) : concl[k] = "Nunca se dispara pedido") <=> pedidos = 0)
    /\ (pc = "fin" /\ corrida = 0 /\ concl[Len(concl)] = "Nunca se dispara pedido") =>
          PedidosHechos = 0

C13_Witness ==
    /\ pc = "fin"
    /\ corrida = 0
    /\ concl[Len(concl)] = "Nunca se dispara pedido"
    /\ Len(registros) = dias
    /\ dias > 2

\* A run whose trigger-day count exceeds its orders: low days with an order in flight.
C13_WitnessMore ==
    /\ corrida = 0
    /\ Retornado
    /\ pedidos > PedidosHechos
    /\ PedidosHechos > 0

\* C14: every end-of-day inventory is at most max(I0, reorderPoint + orderQuantity).
C14_InventoryBounded ==
    /\ inventario <= max(I0, s + Q)
    /\ \A i \in Filas : InvFin(i) <= max(I0, s + Q)
    /\ \A i \in 1..Len(retorno) : retorno[i].Inventario <= max(I0, s + Q)

C14_Witness ==
    /\ s + Q > I0
    /\ \E i \in Filas : InvFin(i) = s + Q /\ traza[i].llego

\* C15: whenever day t ends with inventoryEnd <= reorderPoint an order is in flight or
\* is placed on day t + 1, and an arrival occurs on a day d with t < d <= t + L + 1
\* when d is within the horizon. Row i is day t = i - 1; the arrival day is the one
\* recorded in llegada_pedido, at the end of day t or, on an arrival day, of day t + 1.
C15_BoundedReplenishment ==
    \A i \in Filas : InvFin(i) <= s =>
        /\ traza[i].llegada > i - 1 =>
              /\ traza[i].llegada <= (i - 1) + L + 1
              /\ traza[i].llegada + 1 \in Filas => traza[traza[i].llegada + 1].llego
        /\ (traza[i].llegada <= i - 1 /\ i + 1 \in Filas) =>
              /\ traza[i + 1].pidio
              /\ i - 1 < traza[i + 1].llegada
              /\ traza[i + 1].llegada <= (i - 1) + L + 1
              /\ traza[i + 1].llegada + 1 \in Filas => traza[traza[i + 1].llegada + 1].llego
        /\ i + L + 1 \in Filas => \E k \in (i + 1)..(i + L + 1) : traza[k].llego

\* A low arrival day t whose replenishment arrives exactly on day t + L + 1.
C15_Witness ==
    \E i \in Filas :
        /\ InvFin(i) <= s
        /\ traza[i].llego
        /\ traza[i].llegada = i - 1
        /\ i + L + 1 \in Filas
        /\ traza[i + L + 1].llego
        /\ \A k \in (i + 1)..(i + L) : ~traza[k].llego

\* C16: for every day t, inventoryEnd(t) = I0 + Q * (arrivals on days <= t) - (sales
\* on days <= t); shortfall never enters the balance.
C16_StockConservation ==
    /\ \A i \in Filas :
          InvFin(i) = I0 + Q * Cardinality({j \in 1..i : traza[j].llego})
                         - Suma([j \in 1..i |-> Ven(j)])
    /\ \A i \in Filas : Fal(i) > 0 => InvFin(i) = InvPrevio(i) + (IF traza[i].llego THEN Q ELSE 0) - Ven(i)

C16_Witness ==
    \E i \in Filas :
        /\ \E j \in 1..i : traza[j].llego
        /\ \E j \in 1..i : Fal(j) > 0
        /\ \E j \in 1..i : Ven(j) > 0
        /\ i = dias

====
